---- MODULE Spec2Model ----
(***************************************************************************)
(* Model of script.py: the JavaParser version checker.                     *)
(*                                                                         *)
(*   get_all_javaparser_artifacts  the Artifact Lister   (SpecLister)      *)
(*   get_latest_version            the Version Resolver  (SpecResolver)    *)
(*   main                          the run driver and the report emitter   *)
(*                                 (Spec, FairSpec)                        *)
(*                                                                         *)
(* A Python str is a sequence of one-character strings, so that strip,     *)
(* re.match, split, the substring test and the ordering used by sorted()   *)
(* are computed and not assumed.                                           *)
(***************************************************************************)
EXTENDS Integers, Sequences, FiniteSets, TLC

VARIABLES
    pc,              \* main: the statement main is about to execute
    artifacts,       \* main: the list returned by the Lister
    i,               \* main: enumerate(artifacts, 1) index of the current artifact
    version,         \* main: the local holding the Resolver's last result
    versions,        \* main: dict artifact -> version, in insertion order
    version_groups,  \* main: dict version -> list of artifacts, in insertion order
    gi,              \* main: position of the grouping loop in versions.items()
    xml_output,      \* main: the manifest text, as its dependency records
    console,         \* what print() has written, one record per line
    files,           \* the files written so far: kind -> content
    calls,           \* history: the Resolver calls made, as <<artifact, result>>
    listerCalls,     \* history: number of Lister calls made
    sleeps,          \* history: number of time.sleep(0.3) pauses made
    lpc, lfetch, lresult,   \* Lister harness: position, index fetch, result
    rpc, rfetch, rresult    \* Resolver harness: position, detail fetch, result

mainVars == <<pc, artifacts, i, version, versions, version_groups, gi,
              xml_output, console, files, calls, listerCalls, sleeps>>
listerVars == <<lpc, lfetch, lresult>>
resolverVars == <<rpc, rfetch, rresult>>
harnessVars == <<lpc, lfetch, lresult, rpc, rfetch, rresult>>
vars == <<pc, artifacts, i, version, versions, version_groups, gi,
          xml_output, console, files, calls, listerCalls, sleeps,
          lpc, lfetch, lresult, rpc, rfetch, rresult>>

(***************************************************************************)
(* Bounds of the model.                                                    *)
(***************************************************************************)
\* longest detail page (in anchors) given to the Resolver harness
MaxAnchors == 2
\* longest index page (in elements) given to the Lister harness
MaxElems == 3
\* longest index page (in elements) fetched by main
MaxMainElems == 3

(***************************************************************************)
(* Python str operations.                                                  *)
(***************************************************************************)
\* The characters used, in code-point order (str comparison is by code point).
AsciiOrder ==
    <<" ", ",", "-", ".", "/",
      "0", "1", "2", "3", "4", "5", "6", "7", "8", "9", ":", "=", "?",
      "A", "B", "C", "D", "E", "F", "G", "H", "I", "J", "K", "L", "M",
      "N", "O", "P", "Q", "R", "S", "T", "U", "V", "W", "X", "Y", "Z", "_",
      "a", "b", "c", "d", "e", "f", "g", "h", "i", "j", "k", "l", "m",
      "n", "o", "p", "q", "r", "s", "t", "u", "v", "w", "x", "y", "z">>

Ord(c) == CHOOSE n \in DOMAIN AsciiOrder : AsciiOrder[n] = c

Digits == {"0", "1", "2", "3", "4", "5", "6", "7", "8", "9"}
Whitespace == {" "}

\* s < t for Python str: lexicographic by code point, a proper prefix first.
RECURSIVE StrLess(_, _)
StrLess(s, t) ==
    IF t = <<>> THEN FALSE
    ELSE IF s = <<>> THEN TRUE
    ELSE IF Head(s) = Head(t) THEN StrLess(Tail(s), Tail(t))
    ELSE Ord(Head(s)) < Ord(Head(t))

\* str.strip(): drop leading and trailing whitespace.
RECURSIVE lstrip(_)
lstrip(s) ==
    IF s # <<>> /\ Head(s) \in Whitespace THEN lstrip(Tail(s)) ELSE s

RECURSIVE rstrip(_)
rstrip(s) ==
    IF s # <<>> /\ s[Len(s)] \in Whitespace
    THEN rstrip(SubSeq(s, 1, Len(s) - 1)) ELSE s

strip(s) == rstrip(lstrip(s))

\* First position >= n of s that holds no digit (Len(s) + 1 if none): \d* from n.
RECURSIVE SkipDigits(_, _)
SkipDigits(s, n) ==
    IF n <= Len(s) /\ s[n] \in Digits THEN SkipDigits(s, n + 1) ELSE n

\* Mutant: the pattern is anchored at the end too (fullmatch).
VersionPatternMatches_Exact(s) ==
    LET a == SkipDigits(s, 1)
        b == SkipDigits(s, a + 1)
        c == SkipDigits(s, b + 1)
    IN  /\ a > 1
        /\ a <= Len(s) /\ s[a] = "."
        /\ b > a + 1
        /\ b <= Len(s) /\ s[b] = "."
        /\ c > b + 1
        /\ c = Len(s) + 1

\* re.match(r'^\d+\.\d+\.\d+', s) is not None.  \d and \. are disjoint, so the
\* greedy scan decides the match.
VersionPatternMatches(s) ==
    LET a == SkipDigits(s, 1)
        b == SkipDigits(s, a + 1)
        c == SkipDigits(s, b + 1)
    IN  /\ a > 1
        /\ a <= Len(s) /\ s[a] = "."
        /\ b > a + 1
        /\ b <= Len(s) /\ s[b] = "."
        /\ c > b + 1

\* s.startswith(p)
startswith(s, p) == Len(s) >= Len(p) /\ SubSeq(s, 1, Len(p)) = p

\* s.endswith(p)
endswith(s, p) ==
    Len(s) >= Len(p) /\ SubSeq(s, Len(s) - Len(p) + 1, Len(s)) = p

\* p in s  (substring test)
Contains(s, p) ==
    \E n \in 1..(Len(s) - Len(p) + 1) : SubSeq(s, n, n + Len(p) - 1) = p

\* s.split('/')[-1]: what follows the last '/', the whole of s if it has none.
RECURSIVE LastSegment(_)
LastSegment(s) ==
    IF s = <<>> \/ s[Len(s)] = "/" THEN <<>>
    ELSE Append(LastSegment(SubSeq(s, 1, Len(s) - 1)), s[Len(s)])

(***************************************************************************)
(* Optional values: a function returning a str or None.                    *)
(***************************************************************************)
None == [some |-> FALSE, val |-> <<>>]
Some(v) == [some |-> TRUE, val |-> v]

\* The outcome of requests.get + raise_for_status + BeautifulSoup raising.
FetchError == [ok |-> FALSE, page |-> <<>>]
Fetched(p) == [ok |-> TRUE, page |-> p]

(***************************************************************************)
(* get_latest_version (lines 56-92).                                       *)
(* A detail page is the sequence of its <a> elements in document order,    *)
(* each with its class list and its text.                                  *)
(***************************************************************************)
IsVbtn(a) == "vbtn" \in a.class
IsVnum(a) == "vnum" \in a.class

\* soup.find_all('a', class_='vbtn')
version_links(page) == SelectSeq(page, IsVbtn)

\* The text a strategy extracts from a link: link.text.strip(), kept when it is
\* non-empty and matches the version pattern.
ExtractVersion(a) ==
    LET v == strip(a.text)
    IN  IF v # <<>> /\ VersionPatternMatches(v) THEN Some(v) ELSE None

\* Mutant: strategy 1 ignores the "release" tag.
RECURSIVE ReleaseStrategy_AnyTag(_)
ReleaseStrategy_AnyTag(links) ==
    IF links = <<>> THEN None
    ELSE IF ExtractVersion(Head(links)).some
         THEN ExtractVersion(Head(links))
         ELSE ReleaseStrategy_AnyTag(Tail(links))

\* Lines 70-74: the first release-tagged vbtn link whose text matches.
RECURSIVE ReleaseStrategy(_)
ReleaseStrategy(links) ==
    IF links = <<>> THEN None
    ELSE IF "release" \in Head(links).class /\ ExtractVersion(Head(links)).some
         THEN ExtractVersion(Head(links))
         ELSE ReleaseStrategy(Tail(links))

\* Lines 77-80: the first vbtn link, whatever its tag.
FirstLinkStrategy(links) ==
    IF links # <<>> THEN ExtractVersion(links[1]) ELSE None

\* Lines 83-87: soup.find('a', class_='vnum'), the first such element.
VnumStrategy(page) ==
    LET vn == SelectSeq(page, IsVnum)
    IN  IF vn # <<>> THEN ExtractVersion(vn[1]) ELSE None

\* Mutant: the strategies are gated by page shape (elif) instead of falling
\* through.
ParseDetail_Gated(page) ==
    LET links == version_links(page)
        HasRelease == \E n \in DOMAIN links : "release" \in links[n].class
    IN  IF HasRelease THEN ReleaseStrategy(links)
        ELSE IF links # <<>> THEN FirstLinkStrategy(links)
        ELSE VnumStrategy(page)

\* Lines 68-89: the strategies in order, each tried when the ones before it
\* returned nothing.
ParseDetail(page) ==
    LET links == version_links(page)
    IN  IF ReleaseStrategy(links).some THEN ReleaseStrategy(links)
        ELSE IF FirstLinkStrategy(links).some THEN FirstLinkStrategy(links)
        ELSE VnumStrategy(page)

\* Lines 60-92: any exception of the fetch or the parse gives None.
get_latest_version(fetch) ==
    IF fetch.ok THEN ParseDetail(fetch.page) ELSE None

(***************************************************************************)
(* get_all_javaparser_artifacts (lines 12-54).                             *)
(* An index page is the sequence, in document order, of its div.im         *)
(* elements and its <a> elements: an element is an <a> (with or without an *)
(* href) that encloses a div.im or not, or a div.im outside any <a>.       *)
(***************************************************************************)
\* '/artifact/com.github.javaparser/'
NsPath ==
    <<"/", "a", "r", "t", "i", "f", "a", "c", "t", "/",
      "c", "o", "m", ".", "g", "i", "t", "h", "u", "b", ".",
      "j", "a", "v", "a", "p", "a", "r", "s", "e", "r", "/">>

Anchor(href, im) == [tag |-> "a", href |-> href, im |-> im]
BareDiv == [tag |-> "div", href |-> None, im |-> TRUE]

\* re.compile(r'/artifact/com\.github\.javaparser/[^/]+$').search(href)
FallbackPatternMatches(href) ==
    LET name == LastSegment(href)
        head == SubSeq(href, 1, Len(href) - Len(name))
    IN  name # <<>> /\ endswith(head, NsPath)

\* x in list
InList(x, list) == \E n \in DOMAIN list : list[n] = x

\* Lines 30-40: for every div.im, the enclosing link's last path segment.
RECURSIVE PrimaryScan(_, _)
PrimaryScan(page, acc) ==
    IF page = <<>> THEN acc
    ELSE LET e == Head(page)
             name == LastSegment(e.href.val)
         IN  IF /\ e.im
                /\ e.tag = "a"
                /\ e.href.some
                /\ Contains(e.href.val, NsPath)
                /\ name # <<>>
                /\ ~startswith(name, <<"?">>)
             THEN PrimaryScan(Tail(page), Append(acc, name))
             ELSE PrimaryScan(Tail(page), acc)

\* Lines 44-48: every link whose href matches the namespace pattern.
RECURSIVE FallbackScan(_, _)
FallbackScan(page, acc) ==
    IF page = <<>> THEN acc
    ELSE LET e == Head(page)
             name == LastSegment(e.href.val)
         IN  IF /\ e.tag = "a"
                /\ e.href.some
                /\ FallbackPatternMatches(e.href.val)
                /\ name # <<>>
                /\ ~InList(name, acc)
             THEN FallbackScan(Tail(page), Append(acc, name))
             ELSE FallbackScan(Tail(page), acc)

\* Lines 26-48: the list built before the return.
ExtractArtifacts(page) ==
    LET primary == PrimaryScan(page, <<>>)
    IN  IF primary = <<>> THEN FallbackScan(page, <<>>) ELSE primary

\* set(list)
ToSet(list) == {list[n] : n \in DOMAIN list}

\* The least str of a non-empty set.
MinStr(S) == CHOOSE x \in S : \A y \in S \ {x} : StrLess(x, y)

\* sorted(S) for a set of str.
RECURSIVE SortedStrs(_)
SortedStrs(S) ==
    IF S = {} THEN <<>>
    ELSE <<MinStr(S)>> \o SortedStrs(S \ {MinStr(S)})

\* sorted(list) for a list of str, duplicates kept (stable order is immaterial
\* for equal str).
SortedList(list) == SortSeq(list, StrLess)

\* Mutant: the list is sorted without being made a set.
SortedDistinct_NoSet(list) == SortedList(list)

\* Line 50: sorted(list(set(artifacts)))
SortedDistinct(list) == SortedStrs(ToSet(list))

\* Lines 18-54: any exception of the fetch or the parse gives [].
get_all_javaparser_artifacts(fetch) ==
    IF fetch.ok THEN SortedDistinct(ExtractArtifacts(fetch.page)) ELSE <<>>

(***************************************************************************)
(* Inputs.                                                                 *)
(***************************************************************************)
\* All sequences over S of length at most n.
SeqsUpTo(S, n) == UNION {[1..k -> S] : k \in 0..n}

\* Link texts of detail pages.
T_3_25_4 == <<"3", ".", "2", "5", ".", "4">>
T_3_25_4_padded == <<" ", "3", ".", "2", "5", ".", "4", " ">>
T_2_0_0 == <<"2", ".", "0", ".", "0">>
T_snapshot_ish ==
    <<"1", ".", "0", ".", "0", "-", "S", "N", "A", "P", "S", "H", "O", "T",
      "-", "i", "s", "h">>
T_latest == <<"l", "a", "t", "e", "s", "t">>
T_3_25 == <<"3", ".", "2", "5">>
T_blank == <<" ">>

Texts ==
    {T_3_25_4, T_3_25_4_padded, T_2_0_0, T_snapshot_ish, T_latest, T_3_25,
     T_blank}

ClassLists == SUBSET {"vbtn", "release", "vnum"}

DetailAnchors == [class : ClassLists, text : Texts]

DetailPages == SeqsUpTo(DetailAnchors, MaxAnchors)

DetailFetches == {FetchError} \cup {Fetched(p) : p \in DetailPages}

\* Artifact names and hrefs of index pages.
N_a == <<"a">>
N_ab == <<"a", "b">>
N_b == <<"b">>
N_c == <<"c">>
N_d == <<"d">>

Href(name) == NsPath \o name

IndexHrefs ==
    {Href(N_a), Href(N_ab), Href(N_b),
     Href(<<"?", "p", "=", "2">>),                 \* a query link of the index
     Href(<<>>),                                   \* the namespace itself
     Href(N_a) \o <<"/", "u">>,                    \* below an artifact
     <<"/", "x", "/", "a">>}                       \* another namespace

IndexElems ==
    {Anchor(Some(h), im) : h \in IndexHrefs, im \in BOOLEAN}
        \cup {Anchor(None, TRUE), BareDiv}

\* Pages of five distinct matching links and one duplicate, in every order,
\* the links found by the primary strategy (im) or by the fallback.
FiveNames == {N_a, N_ab, N_b, N_c, N_d}
FiveAndDuplicatePages ==
    {[n \in 1..6 |-> Anchor(Some(Href(f[n])), im)] :
        f \in {g \in [1..6 -> FiveNames] : \A x \in FiveNames : \E n \in 1..6 : g[n] = x},
        im \in BOOLEAN}

IndexPages == SeqsUpTo(IndexElems, MaxElems) \cup FiveAndDuplicatePages

IndexFetches == {FetchError} \cup {Fetched(p) : p \in IndexPages}

\* A file not yet written, and a written one.
NotWritten == [written |-> FALSE, content |-> <<>>]
Written(c) == [written |-> TRUE, content |-> c]

\* The locals of main before its first statement.
MainAt(p) ==
    /\ pc = p
    /\ artifacts = <<>>
    /\ i = 0
    /\ version = None
    /\ versions = <<>>
    /\ version_groups = <<>>
    /\ gi = 0
    /\ xml_output = <<>>
    /\ console = <<>>
    /\ files = [json |-> NotWritten, xml |-> NotWritten,
                csv |-> NotWritten, txt |-> NotWritten]
    /\ calls = <<>>
    /\ listerCalls = 0
    /\ sleeps = 0

ListerIdle == lpc = "idle" /\ lfetch = FetchError /\ lresult = <<>>
ResolverIdle == rpc = "idle" /\ rfetch = FetchError /\ rresult = None

Init == MainAt("listing") /\ ListerIdle /\ ResolverIdle

(***************************************************************************)
(* The Resolver on its own: one call on any detail fetch.                  *)
(***************************************************************************)
InitResolver ==
    /\ rpc = "call"
    /\ rfetch \in DetailFetches
    /\ rresult = None
    /\ MainAt("idle") /\ ListerIdle

ResolverCall ==
    /\ rpc = "call"
    /\ rresult' = get_latest_version(rfetch)
    /\ rpc' = "returned"
    /\ UNCHANGED <<rfetch, mainVars, listerVars>>

(***************************************************************************)
(* The Lister on its own: one call on any index fetch.                     *)
(***************************************************************************)
InitLister ==
    /\ lpc = "call"
    /\ lfetch \in IndexFetches
    /\ lresult = <<>>
    /\ MainAt("idle") /\ ResolverIdle

ListerCall ==
    /\ lpc = "call"
    /\ lresult' = get_all_javaparser_artifacts(lfetch)
    /\ lpc' = "returned"
    /\ UNCHANGED <<lfetch, mainVars, resolverVars>>

(***************************************************************************)
(* main (lines 94-217).                                                    *)
(***************************************************************************)
\* What main can fetch: index pages that list artifacts by the primary
\* strategy or one by the fallback, and detail pages of one link.
MainIndexElems ==
    {Anchor(Some(Href(N_a)), TRUE), Anchor(Some(Href(N_ab)), TRUE),
     Anchor(Some(Href(N_b)), TRUE), Anchor(Some(Href(N_d)), TRUE),
     Anchor(Some(Href(N_c)), FALSE)}

MainIndexFetches ==
    {FetchError} \cup {Fetched(p) : p \in SeqsUpTo(MainIndexElems, MaxMainElems)}

MainDetailFetches ==
    {FetchError} \cup
    {Fetched(<<[class |-> c, text |-> t]>>) :
        c \in {{"vbtn", "release"}, {"vbtn"}, {"vnum"}},
        t \in {T_3_25_4_padded, T_2_0_0, T_snapshot_ish, T_latest}}

\* One print() call: what it reports, and whether it ends the line.
Out(kind, n, artifact, ver, newline) ==
    [kind |-> kind, n |-> n, artifact |-> artifact, version |-> ver,
     newline |-> newline]

\* dict operations; a dict is the sequence of its items in insertion order.
Item(k, v) == [k |-> k, v |-> v]
HasKey(d, k) == \E n \in DOMAIN d : d[n].k = k
Get(d, k) == d[CHOOSE n \in DOMAIN d : d[n].k = k].v
Keys(d) == [n \in DOMAIN d |-> d[n].k]
\* d[k] = v
DictSet(d, k, v) ==
    IF HasKey(d, k)
    THEN [n \in DOMAIN d |-> IF d[n].k = k THEN Item(k, v) ELSE d[n]]
    ELSE Append(d, Item(k, v))

\* Tuple order of (artifact, version) items, as sorted(versions.items()) uses.
ItemLess(x, y) == StrLess(x.k, y.k) \/ (x.k = y.k /\ StrLess(x.v, y.v))
SortedItems(d) == SortSeq(d, ItemLess)

\* sorted(version_groups.keys(), reverse=True)
StrGreater(s, t) == StrLess(t, s)
SortedKeysDesc(d) == SortSeq(Keys(d), StrGreater)


\* Line 100: artifacts = get_all_javaparser_artifacts()
Listing ==
    /\ pc = "listing"
    /\ \E f \in MainIndexFetches :
          /\ artifacts' = get_all_javaparser_artifacts(f)
          /\ console' = console
                \o <<Out("fetching", 0, <<>>, <<>>, TRUE)>>
                \o (IF f.ok THEN <<>>
                    ELSE <<Out("error_fetching", 0, <<>>, <<>>, TRUE)>>)
    /\ listerCalls' = listerCalls + 1
    /\ pc' = "check_artifacts"
    /\ UNCHANGED harnessVars
    /\ UNCHANGED <<i, version, versions, version_groups, gi, xml_output,
                   files, calls, sleeps>>

\* Mutant: the empty listing does not end the run.
CheckArtifacts_NoAbort ==
    /\ pc = "check_artifacts"
    /\ console' = Append(console, Out("found", Len(artifacts), <<>>, <<>>, TRUE))
    /\ versions' = <<>>
    /\ i' = 1
    /\ pc' = "loop_head"
    /\ UNCHANGED harnessVars
    /\ UNCHANGED <<artifacts, version, version_groups, gi, xml_output,
                   files, calls, listerCalls, sleeps>>

\* Lines 102-110: the empty listing ends the run; otherwise the loop starts.
CheckArtifacts ==
    /\ pc = "check_artifacts"
    /\ IF artifacts = <<>>
       THEN /\ console' = Append(console, Out("no_artifacts", 0, <<>>, <<>>, TRUE))
            /\ pc' = "done"
            /\ UNCHANGED <<versions, i>>
       ELSE /\ console' = Append(console,
                                 Out("found", Len(artifacts), <<>>, <<>>, TRUE))
            /\ versions' = <<>>
            /\ i' = 1
            /\ pc' = "loop_head"
    /\ UNCHANGED harnessVars
    /\ UNCHANGED <<artifacts, version, version_groups, gi, xml_output,
                   files, calls, listerCalls, sleeps>>

\* Lines 113-114: the next artifact and the start of its progress line, or the
\* end of the loop.
LoopHead ==
    /\ pc = "loop_head"
    /\ IF i <= Len(artifacts)
       THEN /\ console' = Append(console,
                                 Out("checking", i, artifacts[i], <<>>, FALSE))
            /\ pc' = "resolve"
       ELSE /\ pc' = "summary"
            /\ UNCHANGED console
    /\ UNCHANGED harnessVars
    /\ UNCHANGED <<artifacts, i, version, versions, version_groups, gi,
                   xml_output, files, calls, listerCalls, sleeps>>

\* Line 115: version = get_latest_version(artifact)
Resolve ==
    /\ pc = "resolve"
    /\ \E f \in MainDetailFetches :
          /\ version' = get_latest_version(f)
          /\ calls' = Append(calls, <<artifacts[i], get_latest_version(f)>>)
    /\ pc' = "record"
    /\ UNCHANGED harnessVars
    /\ UNCHANGED <<artifacts, i, versions, version_groups, gi, xml_output,
                   console, files, listerCalls, sleeps>>

\* Mutant: an artifact without a version is stored with a null value.
Record_StoreNull ==
    /\ pc = "record"
    /\ versions' = DictSet(versions, artifacts[i], version.val)
    /\ console' = Append(console,
                         Out("ok", i, artifacts[i], version.val, TRUE))
    /\ pc' = "sleep"
    /\ UNCHANGED harnessVars
    /\ UNCHANGED <<artifacts, i, version, version_groups, gi, xml_output,
                   files, calls, listerCalls, sleeps>>

\* Lines 117-121: `if version:` holds for a non-empty str.
Record ==
    /\ pc = "record"
    /\ IF version.some /\ version.val # <<>>
       THEN /\ versions' = DictSet(versions, artifacts[i], version.val)
            /\ console' = Append(console,
                                 Out("ok", i, artifacts[i], version.val, TRUE))
       ELSE /\ console' = Append(console,
                                 Out("no_stable_version", i, artifacts[i], <<>>, TRUE))
            /\ UNCHANGED versions
    /\ pc' = "sleep"
    /\ UNCHANGED harnessVars
    /\ UNCHANGED <<artifacts, i, version, version_groups, gi, xml_output,
                   files, calls, listerCalls, sleeps>>

\* Mutant: the loop goes on without the pause.
Sleep_NoPause ==
    /\ pc = "sleep"
    /\ i' = i + 1
    /\ pc' = "loop_head"
    /\ UNCHANGED harnessVars
    /\ UNCHANGED <<artifacts, version, versions, version_groups, gi,
                   xml_output, console, files, calls, listerCalls, sleeps>>

\* Line 124: time.sleep(0.3), then the loop's next iteration.
Sleep ==
    /\ pc = "sleep"
    /\ sleeps' = sleeps + 1
    /\ i' = i + 1
    /\ pc' = "loop_head"
    /\ UNCHANGED harnessVars
    /\ UNCHANGED <<artifacts, version, versions, version_groups, gi,
                   xml_output, console, files, calls, listerCalls>>

\* Mutant: the run goes on to the reports with no version found.
Summary_NoAbort ==
    /\ pc = "summary"
    /\ console' = Append(console, Out("summary", 0, <<>>, <<>>, TRUE))
    /\ version_groups' = <<>>
    /\ gi' = 1
    /\ pc' = "group"
    /\ UNCHANGED harnessVars
    /\ UNCHANGED <<artifacts, i, version, versions, xml_output,
                   files, calls, listerCalls, sleeps>>

\* Lines 127-136: no version at all ends the run; otherwise grouping starts.
Summary ==
    /\ pc = "summary"
    /\ IF versions = <<>>
       THEN /\ console' = console
                  \o <<Out("summary", 0, <<>>, <<>>, TRUE),
                       Out("no_versions", 0, <<>>, <<>>, TRUE)>>
            /\ pc' = "done"
            /\ UNCHANGED <<version_groups, gi>>
       ELSE /\ console' = Append(console, Out("summary", 0, <<>>, <<>>, TRUE))
            /\ version_groups' = <<>>
            /\ gi' = 1
            /\ pc' = "group"
    /\ UNCHANGED harnessVars
    /\ UNCHANGED <<artifacts, i, version, versions, xml_output,
                   files, calls, listerCalls, sleeps>>

\* Mutant: a version seen again starts its group afresh.
AddToGroup_Reset(groups, artifact, ver) ==
    DictSet(groups, ver, <<artifact>>)

\* Lines 138-140 for one item of versions.
AddToGroup(groups, artifact, ver) ==
    LET g == IF HasKey(groups, ver) THEN groups ELSE Append(groups, Item(ver, <<>>))
    IN  DictSet(g, ver, Append(Get(g, ver), artifact))

\* Lines 137-140: one iteration of the grouping loop, or its end.
Group ==
    /\ pc = "group"
    /\ IF gi <= Len(versions)
       THEN /\ version_groups' =
                  AddToGroup(version_groups, versions[gi].k, versions[gi].v)
            /\ gi' = gi + 1
            /\ pc' = "group"
       ELSE /\ pc' = "print_groups"
            /\ UNCHANGED <<version_groups, gi>>
    /\ UNCHANGED harnessVars
    /\ UNCHANGED <<artifacts, i, version, versions, xml_output, console,
                   files, calls, listerCalls, sleeps>>

\* One record per version, by descending version: the version, the size of
\* its group and the group's members sorted (lines 144-148 and 210-213).
GroupReport(groups) ==
    LET keys == SortedKeysDesc(groups)
    IN  [n \in DOMAIN keys |->
            [version |-> keys[n],
             count |-> Len(Get(groups, keys[n])),
             members |-> SortedList(Get(groups, keys[n]))]]

\* The lines printed for the group records: a heading, then a line per member.
RECURSIVE GroupLines(_)
GroupLines(report) ==
    IF report = <<>> THEN <<>>
    ELSE LET g == Head(report)
         IN  <<Out("version", g.count, <<>>, g.version, TRUE)>>
             \o [n \in DOMAIN g.members |->
                    Out("member", n, g.members[n], g.version, TRUE)]
             \o GroupLines(Tail(report))

\* Lines 142-149: the version groups on the console.
PrintGroups ==
    /\ pc = "print_groups"
    /\ console' = console
          \o <<Out("versions_found", Len(version_groups), <<>>, <<>>, TRUE)>>
          \o GroupLines(GroupReport(version_groups))
    /\ pc' = "print_xml"
    /\ UNCHANGED harnessVars
    /\ UNCHANGED <<artifacts, i, version, versions, version_groups, gi,
                   xml_output, files, calls, listerCalls, sleeps>>

\* 'com.github.javaparser' (line 109)
group_id ==
    <<"c", "o", "m", ".", "g", "i", "t", "h", "u", "b", ".",
      "j", "a", "v", "a", "p", "a", "r", "s", "e", "r">>

\* Lines 163-169: one dependency record per item, sorted by artifact.
Dependencies(d) ==
    [n \in DOMAIN d |->
        [groupId |-> group_id,
         artifactId |-> SortedItems(d)[n].k,
         version |-> SortedItems(d)[n].v]]

\* Lines 152-172: the manifest is built and printed.
PrintXml ==
    /\ pc = "print_xml"
    /\ xml_output' = [found |-> Len(versions), dependencies |-> Dependencies(versions)]
    /\ console' = Append(console, Out("xml", Len(versions), <<>>, <<>>, TRUE))
    /\ pc' = "write_json"
    /\ UNCHANGED harnessVars
    /\ UNCHANGED <<artifacts, i, version, versions, version_groups, gi,
                   files, calls, listerCalls, sleeps>>

\* Lines 178-186: the JSON report.
WriteJson ==
    /\ pc = "write_json"
    /\ files' = [files EXCEPT !.json =
                    Written([artifacts_count |-> Len(versions),
                             versions |-> versions,
                             version_groups |-> version_groups])]
    /\ console' = Append(console, Out("json_saved", 0, <<>>, <<>>, TRUE))
    /\ pc' = "write_xml"
    /\ UNCHANGED harnessVars
    /\ UNCHANGED <<artifacts, i, version, versions, version_groups, gi,
                   xml_output, calls, listerCalls, sleeps>>

\* Lines 189-192: the manifest file.
WriteXml ==
    /\ pc = "write_xml"
    /\ files' = [files EXCEPT !.xml = Written(xml_output)]
    /\ console' = Append(console, Out("xml_saved", 0, <<>>, <<>>, TRUE))
    /\ pc' = "write_csv"
    /\ UNCHANGED harnessVars
    /\ UNCHANGED <<artifacts, i, version, versions, version_groups, gi,
                   xml_output, calls, listerCalls, sleeps>>

\* "artifact,version" (line 197)
CsvHeader ==
    <<"a", "r", "t", "i", "f", "a", "c", "t", ",",
      "v", "e", "r", "s", "i", "o", "n">>

\* Mutant: the columns are written in the other order.
CsvRows_Swapped(d) ==
    [n \in DOMAIN d |-> SortedItems(d)[n].v \o <<",">> \o SortedItems(d)[n].k]

\* Lines 198-199: f"{artifact},{version}" for every item, sorted by artifact.
CsvRows(d) ==
    [n \in DOMAIN d |-> SortedItems(d)[n].k \o <<",">> \o SortedItems(d)[n].v]

\* Lines 195-200: the CSV report, as the lines written.
WriteCsv ==
    /\ pc = "write_csv"
    /\ files' = [files EXCEPT !.csv = Written(<<CsvHeader>> \o CsvRows(versions))]
    /\ console' = Append(console, Out("csv_saved", 0, <<>>, <<>>, TRUE))
    /\ pc' = "write_txt"
    /\ UNCHANGED harnessVars
    /\ UNCHANGED <<artifacts, i, version, versions, version_groups, gi,
                   xml_output, calls, listerCalls, sleeps>>

\* Lines 203-217: the summary report and the closing line.
WriteTxt ==
    /\ pc = "write_txt"
    /\ files' = [files EXCEPT !.txt =
                    Written([total |-> Len(versions),
                             unique |-> Len(version_groups),
                             groups |-> GroupReport(version_groups)])]
    /\ console' = console
          \o <<Out("summary_saved", 0, <<>>, <<>>, TRUE),
               Out("complete", Len(artifacts), <<>>, <<>>, TRUE)>>
    /\ pc' = "done"
    /\ UNCHANGED harnessVars
    /\ UNCHANGED <<artifacts, i, version, versions, version_groups, gi,
                   xml_output, calls, listerCalls, sleeps>>

Next ==
    \/ Listing
    \/ CheckArtifacts
    \/ LoopHead
    \/ Resolve
    \/ Record
    \/ Sleep
    \/ Summary
    \/ Group
    \/ PrintGroups
    \/ PrintXml
    \/ WriteJson
    \/ WriteXml
    \/ WriteCsv
    \/ WriteTxt

\* One run of main.
Spec == Init /\ [][Next]_vars

\* Every statement of the single thread completes: a fetch returns or raises.
FairSpec == Init /\ [][Next]_vars /\ WF_vars(Next)

\* The Resolver called once on any detail fetch.
SpecResolver == InitResolver /\ [][ResolverCall]_vars

\* The Lister called once on any index fetch.
SpecLister == InitLister /\ [][ListerCall]_vars

(***************************************************************************)
(* Properties of main.                                                     *)
(***************************************************************************)
ListingPcs == {"listing", "check_artifacts"}
ResolvingPcs == {"loop_head", "resolve", "record", "sleep"}
ReportingPcs ==
    {"summary", "group", "print_groups", "print_xml", "write_json",
     "write_xml", "write_csv", "write_txt"}

\* The resolving loop has ended (or was never entered and the run is over).
LoopOver == pc \in ReportingPcs \cup {"done"}

AnyFileWritten ==
    files.json.written \/ files.xml.written \/ files.csv.written \/ files.txt.written

\* Every Resolver call made so far returned None.
AllCallsNone == \A n \in DOMAIN calls : ~calls[n][2].some

\* The artifacts the Resolver was called for, in call order.
CalledArtifacts == [n \in DOMAIN calls |-> calls[n][1]]

\* C1: when the Lister has returned the empty list, main only ends: the
\* Resolver is never called and none of the four files is created.
C1_DiscoveryFailureAborts ==
    (listerCalls > 0 /\ artifacts = <<>>) =>
        /\ pc \in {"check_artifacts", "done"}
        /\ calls = <<>>
        /\ ~AnyFileWritten
        /\ versions = <<>>

\* The run has ended after an index fetch that raised.
C1_Witness ==
    /\ pc = "done"
    /\ artifacts = <<>>
    /\ listerCalls = 1
    /\ \E n \in DOMAIN console : console[n].kind = "error_fetching"
    /\ console[Len(console)].kind = "no_artifacts"

\* C2: with a non-empty listing whose every resolution returned None, the run
\* ends once the loop has visited all artifacts and writes no file; and no
\* file is ever written while VersionMap is empty.
C2_TotalResolutionFailureAborts ==
    /\ AnyFileWritten => versions # <<>>
    /\ (LoopOver /\ artifacts # <<>> /\ AllCallsNone) =>
          /\ pc \in {"summary", "done"}
          /\ CalledArtifacts = artifacts
          /\ ~AnyFileWritten
          /\ versions = <<>>

\* The run has ended after two artifacts both resolved to None.
C2_Witness ==
    /\ pc = "done"
    /\ Len(artifacts) = 2
    /\ Len(calls) = 2
    /\ AllCallsNone
    /\ console[Len(console)].kind = "no_versions"

\* The calls whose result main has already recorded.
RecordedCalls ==
    IF pc = "record" THEN 1..(Len(calls) - 1) ELSE DOMAIN calls

\* C3: VersionMap holds exactly the artifacts whose resolution returned a
\* version, each with the version returned for it, never a null value; a
\* resolution that returned None stops nothing: when the loop ends every listed
\* artifact has been visited.
C3_ResolutionFailureIsolated ==
    /\ {<<versions[n].k, versions[n].v>> : n \in DOMAIN versions}
          = {<<calls[n][1], calls[n][2].val>> :
                n \in {m \in RecordedCalls : calls[m][2].some}}
    /\ \A m, n \in DOMAIN versions : versions[m].k = versions[n].k => m = n
    /\ \A n \in DOMAIN versions : versions[n].v # <<>>
    /\ \A n \in RecordedCalls :
          ~calls[n][2].some => ~HasKey(versions, calls[n][1])
    /\ (LoopOver /\ artifacts # <<>>) => CalledArtifacts = artifacts

\* The loop has ended after a failed resolution was followed by a successful
\* one.
C3_Witness ==
    /\ pc = "summary"
    /\ Len(artifacts) = 3
    /\ ~calls[1][2].some /\ calls[2][2].some /\ ~calls[3][2].some
    /\ Len(versions) = 1

\* Grouping is complete: the reports are being printed or written, or the run
\* has ended after them.
GroupingDone ==
    \/ pc \in {"print_groups", "print_xml", "write_json", "write_xml",
               "write_csv", "write_txt"}
    \/ pc = "done" /\ versions # <<>>

\* How many times artifact a is a member of some group.
Memberships(a) ==
    Cardinality({<<g, m>> \in (DOMAIN version_groups) \X (1..Len(artifacts)) :
                    /\ m \in DOMAIN version_groups[g].v
                    /\ version_groups[g].v[m] = a})

\* C4: from the end of grouping on, VersionMap and VersionGroups agree both
\* ways, every resolved artifact is in exactly one group exactly once, no
\* group is empty, and the JSON file holds the two structures as they are.
C4_RoundTripConsistency ==
    GroupingDone =>
        /\ \A n \in DOMAIN versions :
              /\ HasKey(version_groups, versions[n].v)
              /\ InList(versions[n].k, Get(version_groups, versions[n].v))
              /\ Memberships(versions[n].k) = 1
        /\ \A g \in DOMAIN version_groups :
              /\ version_groups[g].v # <<>>
              /\ \A m \in DOMAIN version_groups[g].v :
                    /\ HasKey(versions, version_groups[g].v[m])
                    /\ Get(versions, version_groups[g].v[m]) = version_groups[g].k
        /\ \A g, h \in DOMAIN version_groups :
              version_groups[g].k = version_groups[h].k => g = h
        /\ files.json.written =>
              /\ files.json.content.versions = versions
              /\ files.json.content.version_groups = version_groups

\* The run has ended with two groups, one of them of two artifacts.
C4_Witness ==
    /\ pc = "done"
    /\ files.txt.written
    /\ Len(versions) = 3
    /\ Len(version_groups) = 2
    /\ \E g \in DOMAIN version_groups : Len(version_groups[g].v) = 2

\* C8: the CSV file is the header "artifact,version" and then one row
\* "artifactId,version" per VersionMap entry, by ascending artifactId; an
\* artifact that resolved to None has no row.
C8_CsvShape ==
    files.csv.written =>
        LET rows == files.csv.content
            keys == SortedStrs({versions[n].k : n \in DOMAIN versions})
        IN  /\ rows[1] = <<"a", "r", "t", "i", "f", "a", "c", "t", ",",
                           "v", "e", "r", "s", "i", "o", "n">>
            /\ Len(rows) = 1 + Len(versions)
            /\ Len(keys) = Len(versions)
            /\ \A n \in DOMAIN keys :
                  rows[n + 1] = keys[n] \o <<",">> \o Get(versions, keys[n])
            /\ \A n \in DOMAIN calls :
                  ~calls[n][2].some =>
                      \A r \in DOMAIN rows :
                          ~startswith(rows[r], calls[n][1] \o <<",">>)

\* The CSV file of a run of three artifacts, the second of which resolved to
\* None, has been written.
C8_Witness ==
    /\ files.csv.written
    /\ Len(artifacts) = 3
    /\ ~calls[2][2].some
    /\ Len(files.csv.content) = 3

PhaseOf(p) ==
    IF p \in ListingPcs THEN 1
    ELSE IF p \in ResolvingPcs THEN 2
    ELSE IF p \in ReportingPcs THEN 3
    ELSE 4

\* Number of print() calls of the given kind so far.
Printed(kind) == Cardinality({n \in DOMAIN console : console[n].kind = kind})

\* The state of the run between two statements: the Lister was called once,
\* the Resolver once for each artifact of a prefix of the sorted listing, and
\* before each call the earlier artifacts have their progress line and pause.
C9_Ordered ==
    /\ listerCalls = (IF pc = "listing" THEN 0 ELSE 1)
    /\ \A n \in 1..(Len(artifacts) - 1) : StrLess(artifacts[n], artifacts[n + 1])
    /\ Len(calls) <= Len(artifacts)
    /\ \A n \in DOMAIN calls : calls[n][1] = artifacts[n]
    /\ pc = "resolve" =>
          /\ i = Len(calls) + 1
          /\ Printed("checking") = Len(calls) + 1
          /\ Printed("ok") + Printed("no_stable_version") = Len(calls)
          /\ sleeps = Len(calls)
    /\ (LoopOver /\ artifacts # <<>>) =>
          /\ Len(calls) = Len(artifacts)
          /\ Printed("checking") = Len(artifacts)
          /\ Printed("ok") + Printed("no_stable_version") = Len(artifacts)
          /\ sleeps = Len(artifacts)

\* C9: a run only moves forward through Listing, Resolving, Reporting and
\* ends; the Lister is called once and the Resolver once per listed artifact
\* in ascending order, each call after the progress line and the pause of the
\* one before; no Resolver call is made once the loop is over.
C9_RunSequencing ==
    /\ [][PhaseOf(pc') >= PhaseOf(pc)]_vars
    /\ <>(pc = "done")
    /\ []C9_Ordered
    /\ [][LoopOver => calls' = calls /\ listerCalls' = listerCalls]_vars

\* The third Resolver call of a run is about to be made.
C9_Witness ==
    /\ pc = "resolve"
    /\ Len(calls) = 2
    /\ sleeps = 2
    /\ Len(artifacts) = 3

(***************************************************************************)
(* Properties of get_latest_version.                                       *)
(***************************************************************************)
\* The stripped text of a link is a version by the pattern.
TextIsVersion(a) == strip(a.text) # <<>> /\ VersionPatternMatches(strip(a.text))

\* Positions in the page of the release-tagged version-selector links whose
\* stripped text matches the pattern.
ReleaseMatches(page) ==
    {n \in DOMAIN page :
        /\ "vbtn" \in page[n].class
        /\ "release" \in page[n].class
        /\ TextIsVersion(page[n])}

\* Positions of the version-selector links, and of the "latest version
\* number" elements.
VbtnPositions(page) == {n \in DOMAIN page : "vbtn" \in page[n].class}
VnumPositions(page) == {n \in DOMAIN page : "vnum" \in page[n].class}

Least(S) == CHOOSE n \in S : \A m \in S : n <= m

ResolverReturned == rpc = "returned" /\ rfetch.ok

\* C5: on a fetched page with a release-tagged version-selector link whose
\* stripped text matches the pattern, the Resolver returns the stripped text of
\* the first such link, whatever untagged links precede it and whatever
\* "latest version number" element the page has.
C5_ReleaseTaggedWins ==
    (ResolverReturned /\ ReleaseMatches(rfetch.page) # {}) =>
        rresult = Some(strip(rfetch.page[Least(ReleaseMatches(rfetch.page))].text))

\* An untagged link with another version and a "latest version number"
\* element precede the release-tagged link whose text was returned.
C5_Witness ==
    /\ ResolverReturned
    /\ rfetch.page = <<[class |-> {"vbtn", "vnum"}, text |-> T_2_0_0],
                       [class |-> {"vbtn", "release"}, text |-> T_3_25_4_padded]>>
    /\ rresult = Some(T_3_25_4)

\* The page has no version-selector link and exactly one "latest version
\* number" element, of text "1.0.0-SNAPSHOT-ish".
SnapshotIshPage ==
    /\ ResolverReturned
    /\ VbtnPositions(rfetch.page) = {}
    /\ Cardinality(VnumPositions(rfetch.page)) = 1
    /\ \A n \in VnumPositions(rfetch.page) : rfetch.page[n].text = T_snapshot_ish

\* C6 as stated: on such a page the Resolver returns None.
C6_AsStated == SnapshotIshPage => rresult = None

\* C6 amended: on such a page the Resolver returns "1.0.0-SNAPSHOT-ish", since
\* the text starts with digits.digits.digits and a trailing qualifier is
\* permitted.
C6_SnapshotIshIsReturned == SnapshotIshPage => rresult = Some(T_snapshot_ish)

\* The Resolver has returned from the page of that single element.
C6_Witness ==
    /\ rpc = "returned"
    /\ rfetch = Fetched(<<[class |-> {"vnum"}, text |-> T_snapshot_ish]>>)
    /\ rresult.some

\* The page has release-tagged version-selector links and none of them has a
\* matching text, or has version-selector links the first of which has no
\* matching text.
EarlierStrategyFailed(page) ==
    \/ /\ \E n \in VbtnPositions(page) : "release" \in page[n].class
       /\ ReleaseMatches(page) = {}
    \/ /\ VbtnPositions(page) # {}
       /\ ~TextIsVersion(page[Least(VbtnPositions(page))])

\* C10 as stated: the strategies are gated by page shape, so on such a page
\* the Resolver returns None.
C10_AsStated ==
    (ResolverReturned /\ EarlierStrategyFailed(rfetch.page)) => rresult = None

\* C10 amended: the strategies are tried in order and the first that yields a
\* matching text decides: the first matching release-tagged link; failing
\* that the first version-selector link, release-tagged or not, if its text
\* matches; failing that the first "latest version number" element if its
\* text matches, also on a page that has version-selector links; None only
\* when all three fail.
C10_FirstSuccessDecides ==
    ResolverReturned =>
        LET page == rfetch.page
            first == page[Least(VbtnPositions(page))]
            vnum == page[Least(VnumPositions(page))]
        IN  IF ReleaseMatches(page) # {}
            THEN rresult = Some(strip(page[Least(ReleaseMatches(page))].text))
            ELSE IF VbtnPositions(page) # {} /\ TextIsVersion(first)
            THEN rresult = Some(strip(first.text))
            ELSE IF VnumPositions(page) # {} /\ TextIsVersion(vnum)
            THEN rresult = Some(strip(vnum.text))
            ELSE rresult = None

\* A release-tagged link without a matching text is the first link, and the
\* version of the "latest version number" element was returned.
C10_Witness ==
    /\ ResolverReturned
    /\ rfetch.page = <<[class |-> {"vbtn", "release"}, text |-> T_latest],
                       [class |-> {"vnum"}, text |-> T_2_0_0]>>
    /\ rresult = Some(T_2_0_0)

(***************************************************************************)
(* Properties of get_all_javaparser_artifacts.                             *)
(***************************************************************************)
\* The href of an element names an artifact for the primary strategy.
PrimaryHit(e) ==
    /\ e.tag = "a" /\ e.im /\ e.href.some
    /\ Contains(e.href.val, NsPath)
    /\ LastSegment(e.href.val) # <<>>
    /\ LastSegment(e.href.val)[1] # "?"

\* The href of an element names an artifact for the fallback strategy.
FallbackHit(e) ==
    /\ e.tag = "a" /\ e.href.some
    /\ LastSegment(e.href.val) # <<>>
    /\ endswith(e.href.val, NsPath \o LastSegment(e.href.val))

\* The identifiers extracted by the strategy that was used.
ExtractedIds(page) ==
    LET primary == {LastSegment(page[n].href.val) :
                        n \in {m \in DOMAIN page : PrimaryHit(page[m])}}
        fallback == {LastSegment(page[n].href.val) :
                        n \in {m \in DOMAIN page : FallbackHit(page[m])}}
    IN  IF primary # {} THEN primary ELSE fallback

\* C7: the Lister returns a strictly ascending list of exactly the distinct
\* identifiers extracted by the strategy used (the empty list when the fetch
\* raised); a page of five distinct matching links and a duplicate of one of
\* them gives five identifiers.
C7_SortedDuplicateFree ==
    lpc = "returned" =>
        /\ \A n \in 1..(Len(lresult) - 1) : StrLess(lresult[n], lresult[n + 1])
        /\ ToSet(lresult) = (IF lfetch.ok THEN ExtractedIds(lfetch.page) ELSE {})
        /\ Len(lresult) = Cardinality(ToSet(lresult))
        /\ (lfetch.ok /\ Len(lfetch.page) = 6) => Len(lresult) = 5

\* The Lister has returned from a page whose first two of six links are the
\* same, the other four distinct.
C7_Witness ==
    /\ lpc = "returned"
    /\ lfetch.ok
    /\ Len(lfetch.page) = 6
    /\ lfetch.page[1] = lfetch.page[2]
    /\ lresult = <<N_a, N_ab, N_b, N_c, N_d>>

====
